---- MODULE Spec2Model ----
(***************************************************************************)
(* State-machine model of internal_chat_mcp: the tool dispatcher           *)
(* (services/tool_service.py), the WaitForMessage dispatch loop and its    *)
(* message predicate (tools/wait_for_message.py, in the packaged and the   *)
(* older stand-alone version), and the one-shot SendMessage tool.          *)
(*                                                                         *)
(* Text is a sequence of one-character strings, so that the regular        *)
(* expression of the mention filter is computed character by character.    *)
(***************************************************************************)
EXTENDS Integers, Sequences, FiniteSets, TLC

(***************************************************************************)
(* Bounds of the model.                                                    *)
(***************************************************************************)
MaxTimeout == 2
MaxElapsed == 5
MaxSkipped == 3

(***************************************************************************)
(* Text, optional values and characters.                                   *)
(***************************************************************************)
\* Python None, and a JSON value that is not a string (a number, a list).
None == <<"None">>
NonStr == <<"NonStr">>

IsStr(v) == v /= None /\ v /= NonStr

\* Python truthiness of an optional string: None and "" are falsy.
Truthy(v) == v /= None /\ v /= <<>>

bob == <<"b", "o", "b">>
alice == <<"a", "l", "i", "c", "e">>

Lower(c) ==
    CASE c = "B" -> "b"
      [] c = "O" -> "o"
      [] c = "W" -> "w"
      [] c = "Y" -> "y"
      [] OTHER -> c

LowerText(t) == [i \in 1..Len(t) |-> Lower(t[i])]

\* \w of Python's re for the characters of the model: letters and "_".
WordChars == {"a", "b", "c", "e", "h", "i", "l", "o", "w", "y",
              "B", "O", "W", "Y", "_"}

IsWord(c) == c \in WordChars

\* t[i..i+Len(p)-1] = p, compared case-insensitively (re.IGNORECASE).
LiteralAt(t, i, p) ==
    /\ i >= 1
    /\ i + Len(p) - 1 <= Len(t)
    /\ \A j \in 1..Len(p) : Lower(t[i + j - 1]) = Lower(p[j])

(***************************************************************************)
(* The mention pattern of wait_for_message.py:83-85,                       *)
(*   rf"(?:^|[^\\w])@{re.escape(mention_user)}(?:[^\\w]|$)", re.IGNORECASE *)
(* In the raw f-string the class is the four characters [^\\w]: a negated  *)
(* class of the escaped backslash and the letter w.                        *)
(***************************************************************************)
\* the set of the character class [^\\w], negated below
ClassChars == {"\\", "w"}

\* [^\\w] under IGNORECASE: any character but backslash, w and W.
InNegClass(c) == Lower(c) \notin ClassChars

\* re.escape(mention_user) followed by its reading as a pattern: the
\* characters of the user name, each matched literally.
MentionToken(u) == <<"@">> \o u

\* The pattern matches with "@" at position i of t.
MentionMatchAt(t, u, i) ==
    /\ LiteralAt(t, i, MentionToken(u))
    /\ \/ i = 1
       \/ i > 1 /\ InNegClass(t[i - 1])
    /\ LET n == i + Len(u) + 1
       IN  \/ n = Len(t) + 1
           \/ n <= Len(t) /\ InNegClass(t[n])

\* mention_pattern.search(message_text)
MentionSearch(t, u) == \E i \in 1..Len(t) : MentionMatchAt(t, u, i)

(***************************************************************************)
(* JSON values of an argument map, tagged with their Python type.          *)
(***************************************************************************)
VStr(s) == [t |-> "str", s |-> s]
VInt(n) == [t |-> "int", n |-> n]
VBool(b) == [t |-> "bool", b |-> b]
VNone == [t |-> "none"]
VDict(d) == [t |-> "dict", d |-> d]
\* a key the caller did not supply
Absent == [t |-> "absent"]

EmptyDict == [k \in {} |-> VNone]

\* Python truthiness of a value (`x or {}`, `if x:`).
TruthyVal(v) ==
    CASE v.t = "none" -> FALSE
      [] v.t = "str" -> v.s /= <<>>
      [] v.t = "int" -> v.n /= 0
      [] v.t = "bool" -> v.b
      [] v.t = "dict" -> DOMAIN v.d /= {}
      [] OTHER -> FALSE

\* The argument map of a call: the keys of r that were supplied.
ArgMap(r) == [k \in {x \in DOMAIN r : r[x] /= Absent} |-> r[k]]

\* dict.get(k) with a default
Get(d, k, default) == IF k \in DOMAIN d THEN d[k] ELSE default

(***************************************************************************)
(* The tool objects and their input schemas                                *)
(* (tool.input_model.model_json_schema()).                                 *)
(***************************************************************************)
PkgTools == <<"PkgSend", "PkgUnread", "PkgWait", "PkgRecent", "PkgVersion">>
OldTools == <<"OldSend", "OldWait">>

\* Tool.name of a tool object
ToolName(obj) ==
    CASE obj \in {"PkgSend", "OldSend"} -> "SendMessage"
      [] obj \in {"PkgWait", "OldWait"} -> "WaitForMessage"
      [] obj = "PkgUnread" -> "GetUnreadMessages"
      [] obj = "PkgRecent" -> "GetRecentMessages"
      [] OTHER -> "GetVersion"

\* schema["properties"]: each declared field with its "type" entry; an
\* Optional field is an anyOf and has no "type" entry ("").
SchemaProps(obj) ==
    CASE obj = "PkgSend" ->
            [message |-> "string", reply_to_user |-> ""]
      [] obj = "PkgUnread" ->
            [filters |-> "", since_message_id |-> "", limit |-> "",
             mention_only |-> "", dm_only |-> "", content_regex |-> ""]
      [] obj = "PkgWait" ->
            [from_user |-> "", mention_only |-> "", timeout |-> "integer"]
      [] obj = "PkgRecent" ->
            [team_id |-> "string", backend_host |-> "string", limit |-> ""]
      [] obj = "OldSend" ->
            [team_id |-> "string", user |-> "string", message |-> "string",
             backend_host |-> "string"]
      [] obj = "OldWait" ->
            [team_id |-> "string", backend_host |-> "string", sender |-> "",
             mention_only |-> "", content_regex |-> "",
             timeout |-> "integer"]
      [] OTHER -> [k \in {} |-> ""]

(***************************************************************************)
(* Input normalization of ToolService.execute_tool.                        *)
(***************************************************************************)
\* allowed_fields = set(schema.get("properties", {}).keys())
AllowedFields(obj) == DOMAIN SchemaProps(obj)

\* A faulty filter: every key of the argument map is passed on.
StrictFilterKeepAll(args, allowed) == args

\* filtered_input = {k: v for k, v in input_data.items() if k in allowed}
StrictFilter(args, allowed) ==
    [k \in DOMAIN args \cap allowed |-> args[k]]

\* The keys of the model in the order a caller's dict lists them.
KeyOrder == <<"user", "limit", "text">>

\* the decimal digits of a natural number
Digit == <<"0", "1", "2", "3", "4", "5", "6", "7", "8", "9">>

RECURSIVE Digits(_)
Digits(n) ==
    IF n < 10 THEN <<Digit[n + 1]>>
    ELSE Digits(n \div 10) \o <<Digit[(n % 10) + 1]>>

\* the escapes of a JSON string: a double quote and a backslash are
\* preceded by a backslash
RECURSIVE JsonEscape(_)
JsonEscape(s) ==
    IF s = <<>> THEN <<>>
    ELSE (IF Head(s) \in {"\"", "\\"} THEN <<"\\", Head(s)>>
          ELSE <<Head(s)>>)
         \o JsonEscape(Tail(s))

\* A faulty encoder: a string is written between quotes as it is.
JsonScalarNoEscape(v) ==
    CASE v.t = "str" -> <<"\"">> \o v.s \o <<"\"">>
      [] v.t = "int" -> Digits(v.n)
      [] v.t = "bool" -> IF v.b THEN <<"t", "r", "u", "e">>
                         ELSE <<"f", "a", "l", "s", "e">>
      [] OTHER -> <<"n", "u", "l", "l">>

\* json.dumps of a scalar: a string in double quotes with its escapes, an
\* integer as its digits, true / false / null.
JsonScalar(v) ==
    CASE v.t = "str" -> <<"\"">> \o JsonEscape(v.s) \o <<"\"">>
      [] v.t = "int" -> Digits(v.n)
      [] v.t = "bool" -> IF v.b THEN <<"t", "r", "u", "e">>
                         ELSE <<"f", "a", "l", "s", "e">>
      [] OTHER -> <<"n", "u", "l", "l">>

RECURSIVE JsonItems(_, _, _)
JsonItems(d, i, first) ==
    IF i > Len(KeyOrder) THEN <<>>
    ELSE IF KeyOrder[i] \notin DOMAIN d THEN JsonItems(d, i + 1, first)
    ELSE (IF first THEN <<>> ELSE <<",", " ">>)
         \o <<"\"", KeyOrder[i], "\"", ":", " ">>
         \o JsonScalar(d[KeyOrder[i]])
         \o JsonItems(d, i + 1, FALSE)

\* json.dumps(d) of a flat dict: {"k": v, "k2": v2}; a key is one token.
JsonDumps(d) == <<"{">> \o JsonItems(d, 1, TRUE) \o <<"}">>

\* d with d[k] = v (dict item assignment)
DictSet(d, k, v) ==
    [x \in DOMAIN d \cup {k} |-> IF x = k THEN v ELSE d[x]]

\* d without key k (dict.pop(k, None))
DictPop(d, k) == [x \in DOMAIN d \ {k} |-> d[x]]

\* json.loads: the reading of a JSON text. A string from the index after
\* its opening quote: the characters up to the closing quote, an escaped
\* character taken as itself.
RECURSIVE ParseStr(_, _, _)
ParseStr(t, i, acc) ==
    IF i > Len(t) THEN [ok |-> FALSE, val |-> acc, next |-> i]
    ELSE IF t[i] = "\"" THEN [ok |-> TRUE, val |-> acc, next |-> i + 1]
    ELSE IF t[i] = "\\"
    THEN IF i + 1 > Len(t) THEN [ok |-> FALSE, val |-> acc, next |-> i]
         ELSE ParseStr(t, i + 2, Append(acc, t[i + 1]))
    ELSE ParseStr(t, i + 1, Append(acc, t[i]))

\* a number from index i: the value of its digits
RECURSIVE ParseInt(_, _, _)
ParseInt(t, i, acc) ==
    IF i <= Len(t) /\ \E n \in 1..10 : Digit[n] = t[i]
    THEN ParseInt(t, i + 1,
                  10 * acc + (CHOOSE n \in 1..10 : Digit[n] = t[i]) - 1)
    ELSE [ok |-> TRUE, val |-> VInt(acc), next |-> i]

\* does the text t carry the word w at index i?
WordAt(t, i, w) ==
    /\ i + Len(w) - 1 <= Len(t)
    /\ SubSeq(t, i, i + Len(w) - 1) = w

\* a scalar from index i
ParseScalar(t, i) ==
    CASE i > Len(t) -> [ok |-> FALSE, val |-> VNone, next |-> i]
      [] i <= Len(t) /\ t[i] = "\"" ->
            LET r == ParseStr(t, i + 1, <<>>)
            IN  [ok |-> r.ok, val |-> VStr(r.val), next |-> r.next]
      [] WordAt(t, i, <<"t", "r", "u", "e">>) ->
            [ok |-> TRUE, val |-> VBool(TRUE), next |-> i + 4]
      [] WordAt(t, i, <<"f", "a", "l", "s", "e">>) ->
            [ok |-> TRUE, val |-> VBool(FALSE), next |-> i + 5]
      [] WordAt(t, i, <<"n", "u", "l", "l">>) ->
            [ok |-> TRUE, val |-> VNone, next |-> i + 4]
      [] OTHER -> ParseInt(t, i, 0)

\* json.loads raises JSONDecodeError on a text that is no JSON
JSONDecodeError == [ok |-> FALSE, val |-> EmptyDict]

\* the items of an object from index i, up to its closing brace
RECURSIVE ParseItems(_, _, _)
ParseItems(t, i, acc) ==
    IF i > Len(t) THEN JSONDecodeError
    ELSE IF t[i] = "}"
    THEN (IF i = Len(t) THEN [ok |-> TRUE, val |-> acc]
          ELSE JSONDecodeError)
    ELSE IF t[i] = "," THEN ParseItems(t, i + 2, acc)
    ELSE IF t[i] = "\"" /\ i + 5 <= Len(t) /\ t[i + 2] = "\""
            /\ t[i + 3] = ":"
    THEN LET r == ParseScalar(t, i + 5)
         IN  IF r.ok /\ r.next > i + 5
             THEN ParseItems(t, r.next, DictSet(acc, t[i + 1], r.val))
             ELSE JSONDecodeError
    ELSE JSONDecodeError

\* json.loads(t) of the text of a flat object: ok and the object read
JsonLoads(t) ==
    IF t /= <<>> /\ t[1] = "{" THEN ParseItems(t, 2, EmptyDict)
    ELSE JSONDecodeError

\* Auto-serialize dicts to JSON strings for the fields whose schema entry
\* has "type": "string".
AutoSerialize(f, obj) ==
    [k \in DOMAIN f |->
        IF Get(SchemaProps(obj), k, "") = "string" /\ f[k].t = "dict"
        THEN VStr(JsonDumps(f[k].d))
        ELSE f[k]]

\* The relocation of a top-level from_user of GetUnreadMessages.
RelocateFromUser(tool_name, args, f) ==
    IF tool_name = "GetUnreadMessages" /\ "from_user" \in DOMAIN args
    THEN LET got == Get(f, "filters", VNone)
             filters == IF TruthyVal(got) THEN got ELSE VDict(EmptyDict)
             g == IF filters.t = "dict"
                  THEN DictSet(f, "filters",
                           VDict(DictSet(filters.d, "user",
                                         args["from_user"])))
                  ELSE f
         IN  DictPop(g, "from_user")
    ELSE f

\* The caller's argument map after the relocation ran. filtered_input is
\* a new dict, but its values are the caller's own objects: when the
\* caller's filters is a non-empty dict, `filtered_input.get("filters")
\* or {}` is that very dict and filters["user"] = ... is written into it.
RelocateInPlace(tool_name, args) ==
    IF /\ tool_name = "GetUnreadMessages"
       /\ "from_user" \in DOMAIN args
       /\ "filters" \in DOMAIN args
       /\ args["filters"].t = "dict"
       /\ TruthyVal(args["filters"])
    THEN DictSet(args, "filters",
                 VDict(DictSet(args["filters"].d, "user",
                               args["from_user"])))
    ELSE args

\* filtered_input as it is handed to the tool.input_model constructor
Normalize(tool_name, obj, args) ==
    RelocateFromUser(tool_name, args,
        AutoSerialize(StrictFilter(args, AllowedFields(obj)), obj))

(***************************************************************************)
(* Construction of the typed input, the tool.input_model constructor:    *)
(* the field declarations of each input model, validated as pydantic       *)
(* does for the value types of the model.                                  *)
(***************************************************************************)
DefaultTimeout == 30
DefaultLimit == 20
LocalHost == <<"localhost:8000">>
DockerHost == <<"host.docker.internal:8000">>
asc == <<"a", "s", "c">>

\* the declared type of each field
FieldKinds(obj) ==
    CASE obj = "PkgSend" ->
            [message |-> "str", reply_to_user |-> "optstr"]
      [] obj = "PkgUnread" ->
            [filters |-> "optfilter", since_message_id |-> "optint",
             limit |-> "optint", mention_only |-> "optbool",
             dm_only |-> "optbool", content_regex |-> "optstr"]
      [] obj = "PkgWait" ->
            [from_user |-> "optstr", mention_only |-> "optbool",
             timeout |-> "int"]
      [] obj = "PkgRecent" ->
            [team_id |-> "str", backend_host |-> "str", limit |-> "optint"]
      [] obj = "OldSend" ->
            [team_id |-> "str", user |-> "str", message |-> "str",
             backend_host |-> "str"]
      [] obj = "OldWait" ->
            [team_id |-> "str", backend_host |-> "str", sender |-> "optstr",
             mention_only |-> "optbool", content_regex |-> "optstr",
             timeout |-> "int"]
      [] OTHER -> [k \in {} |-> ""]

\* the default of each field; Absent for a required field, Field(...)
FieldDefaults(obj) ==
    CASE obj = "PkgSend" ->
            [message |-> Absent, reply_to_user |-> VNone]
      [] obj = "PkgUnread" ->
            [filters |-> VNone, since_message_id |-> VNone,
             limit |-> VInt(DefaultLimit), mention_only |-> VBool(FALSE),
             dm_only |-> VBool(FALSE), content_regex |-> VNone]
      [] obj = "PkgWait" ->
            [from_user |-> VNone, mention_only |-> VBool(FALSE),
             timeout |-> VInt(DefaultTimeout)]
      [] obj = "PkgRecent" ->
            [team_id |-> Absent, backend_host |-> VStr(DockerHost),
             limit |-> VInt(DefaultLimit)]
      [] obj = "OldSend" ->
            [team_id |-> Absent, user |-> Absent, message |-> Absent,
             backend_host |-> VStr(LocalHost)]
      [] obj = "OldWait" ->
            [team_id |-> Absent, backend_host |-> VStr(LocalHost),
             sender |-> VNone, mention_only |-> VBool(FALSE),
             content_regex |-> VNone, timeout |-> VInt(DefaultTimeout)]
      [] OTHER -> [k \in {} |-> Absent]

\* the fields of MessageFilter and their defaults
FilterKinds ==
    [user |-> "optstr", channels |-> "optlist", dm_only |-> "optbool",
     mention_only |-> "optbool", content_regex |-> "optstr",
     from_user |-> "optstr", before |-> "optstr", after |-> "optstr",
     sort |-> "optstr", limit |-> "optint"]

FilterDefaults ==
    [user |-> VNone, channels |-> VNone, dm_only |-> VNone,
     mention_only |-> VNone, content_regex |-> VNone, from_user |-> VNone,
     before |-> VNone, after |-> VNone, sort |-> VStr(asc),
     limit |-> VInt(DefaultLimit)]

\* Does value v validate as a field of the given kind?
ScalarOk(kind, v) ==
    CASE kind = "str" -> v.t = "str"
      [] kind = "optstr" -> v.t \in {"str", "none"}
      [] kind = "int" -> v.t \in {"int", "bool"}
      [] kind = "optint" -> v.t \in {"int", "bool", "none"}
      [] kind = "optbool" ->
            \/ v.t \in {"bool", "none"}
            \/ v.t = "int" /\ v.n \in {0, 1}
      [] kind = "optlist" -> v.t = "none"
      [] OTHER -> FALSE

\* The value a valid v takes in the model (lax-mode coercion).
ScalarVal(kind, v) ==
    CASE kind \in {"int", "optint"} /\ v.t = "bool" ->
            VInt(IF v.b THEN 1 ELSE 0)
      [] kind = "optbool" /\ v.t = "int" -> VBool(v.n = 1)
      [] OTHER -> v

\* the MessageFilter constructor on d: undeclared keys are ignored, declared ones validated.
FilterOk(d) ==
    \A k \in DOMAIN d \cap DOMAIN FilterKinds : ScalarOk(FilterKinds[k], d[k])

FilterModel(d) ==
    [k \in DOMAIN FilterKinds |->
        IF k \in DOMAIN d THEN ScalarVal(FilterKinds[k], d[k])
        ELSE FilterDefaults[k]]

FieldOk(kind, v) ==
    IF kind = "optfilter"
    THEN v.t = "none" \/ (v.t = "dict" /\ FilterOk(v.d))
    ELSE ScalarOk(kind, v)

FieldVal(kind, v) ==
    IF kind = "optfilter"
    THEN (IF v.t = "dict" THEN VDict(FilterModel(v.d)) ELSE v)
    ELSE ScalarVal(kind, v)

\* A faulty constructor: nothing is rejected, a missing or ill-typed field
\* takes its default (the empty string where it has none).
ConstructLenient(obj, f) ==
    LET kinds == FieldKinds(obj)
        defaults == FieldDefaults(obj)
    IN  [ok |-> TRUE,
         model |-> [k \in DOMAIN kinds |->
                        IF k \in DOMAIN f /\ FieldOk(kinds[k], f[k])
                        THEN FieldVal(kinds[k], f[k])
                        ELSE IF defaults[k] /= Absent THEN defaults[k]
                        ELSE VStr(<<>>)]]

\* the tool.input_model constructor on f: ok, and the typed input when ok
Construct(obj, f) ==
    LET kinds == FieldKinds(obj)
        defaults == FieldDefaults(obj)
    IN  [ok |-> \A k \in DOMAIN kinds :
                    IF k \in DOMAIN f THEN FieldOk(kinds[k], f[k])
                    ELSE defaults[k] /= Absent,
         model |-> [k \in DOMAIN kinds |->
                        IF k \in DOMAIN f /\ FieldOk(kinds[k], f[k])
                        THEN FieldVal(kinds[k], f[k])
                        ELSE defaults[k]]]

(***************************************************************************)
(* Inbound frames and the acceptance decision of the wait loop.            *)
(***************************************************************************)
hi == <<"h", "i">>
atBobHi == <<"@", "b", "o", "b", " ", "h", "i">>
hiAtBOB == <<"h", "i", " ", "@", "B", "O", "B">>
atBobbyHi == <<"@", "b", "o", "b", "b", "y", " ", "h", "i">>
general == <<"general">>
\* a pattern re.search rejects with re.error
BadRegex == <<"(">>

\* A frame: msg_raw as received.  kind "msg" is a JSON object, whose user
\* and message are a string, None (key missing) or NonStr; "notjson" is
\* text json.loads rejects; "notobject" is JSON that is not an object.
Frame(kind, user, message, channel) ==
    [kind |-> kind, user |-> user, message |-> message, channel |-> channel]

Frames ==
    {Frame("msg", u, m, c) :
        u \in {alice, bob}, m \in {hi, atBobHi, atBobbyHi},
        c \in {None, general}}
    \cup {Frame("msg", None, hi, None), Frame("msg", alice, NonStr, None),
          Frame("notjson", None, None, None),
          Frame("notobject", None, None, None)}

\* p occurs in t (case-sensitive): `p in t`, and re.search of a pattern
\* made of literal characters
Contains(t, p) ==
    \E i \in 1..(Len(t) + 1) :
        /\ i + Len(p) - 1 <= Len(t)
        /\ \A j \in 1..Len(p) : t[i + j - 1] = p[j]

\* msg.get("message", "")
MessageText(f) == IF f.message = None THEN <<>> ELSE f.message

\* WaitForMessageOutput(user=..., message=..., channel=...): each field is
\* Optional[str], so a value that is not a string fails validation.
OutputOk(f) == f.user /= NonStr /\ f.message /= NonStr /\ f.channel /= NonStr

\* One iteration of the loop of the packaged tool on frame f:
\* "skip" (continue), "accept" (return success) or "error" (an exception
\* that the outer handler turns into status="error").
FrameResultPkg(loc, f) ==
    IF f.kind /= "msg" THEN "error"
    ELSE IF Truthy(loc.from_user) /\ f.user /= loc.from_user THEN "skip"
    ELSE IF loc.mention_pattern /= None /\ MessageText(f) = NonStr
         THEN "error"
    ELSE IF loc.mention_pattern /= None
            /\ ~MentionSearch(MessageText(f), loc.mention_pattern)
         THEN "skip"
    ELSE IF OutputOk(f) THEN "accept" ELSE "error"

\* One iteration of the loop of the stand-alone tool (src/tools).
FrameResultOld(inp, f) ==
    LET sender == inp["sender"]
        regex == inp["content_regex"]
    IN  IF f.kind /= "msg" THEN "error"
        ELSE IF TruthyVal(sender) /\ f.user /= sender.s THEN "skip"
        ELSE IF TruthyVal(inp["mention_only"]) /\ MessageText(f) = NonStr
             THEN "error"
        ELSE IF TruthyVal(inp["mention_only"])
                /\ ~Contains(MessageText(f), <<"@">>)
             THEN "skip"
        ELSE IF TruthyVal(regex)
                /\ (regex.s = BadRegex \/ MessageText(f) = NonStr)
             THEN "error"
        ELSE IF TruthyVal(regex) /\ ~Contains(MessageText(f), regex.s)
             THEN "skip"
        ELSE IF OutputOk(f) THEN "accept" ELSE "error"

FrameResult(obj, inp, loc, f) ==
    IF obj = "PkgWait" THEN FrameResultPkg(loc, f)
    ELSE FrameResultOld(inp, f)

(***************************************************************************)
(* The state.                                                              *)
(***************************************************************************)
VARIABLES
    tools,          \* ToolService._tools: tool name -> tool object
    env,            \* os.environ: BACKEND_HOST, INTERNAL_CHAT_TEAM_ID set?,
                    \* INTERNAL_CHAT_USER (None when unset)
    pc,             \* where the call is
    tool_name,      \* execute_tool's tool_name
    input_data,     \* execute_tool's input_data, the caller's argument map
    tool,           \* the tool object get_tool returned, or "none"
    filtered_input, \* what is handed to the input model
    input_model,    \* the typed input
    loc,            \* locals of tool.execute
    conn,           \* the call's websocket: "none", "open", "closed"
    idle,           \* time the current receive attempt has waited
    elapsed,        \* time since the call began to listen
    skipped,        \* frames read and skipped
    last,           \* the last frame read
    response,       \* the ToolResponse of tool.execute
    exc,            \* the exception that left execute_tool, or "none"
    hist,           \* what the call has done so far (for the properties)
    caller_args,    \* the caller's argument map object, as it is now
    tasks,          \* the invocations in flight on the event loop
    thread,         \* the task that holds the loop's thread, 0 if none
    regLog,         \* the tool objects registered so far, in order
    content,        \* ToolResponse.content handed to the serializer
    wire            \* what _serialize_response returned

vars == <<tools, env, pc, tool_name, input_data, tool, filtered_input,
          input_model, loc, conn, idle, elapsed, skipped, last, response,
          exc, hist, regLog, content, wire, caller_args, tasks, thread>>

\* what no step of a call changes: the registry, the environment and the
\* serializer's variables
fixed == <<tools, env, regLog, content, wire, tasks, thread>>

\* no value serialized yet
NoWire == [t |-> "absent"]

\* no invocation is in flight
NoTasks == <<>>

NoTools == [k \in {} |-> "none"]
\* an HTTP request: its method, the path under /api/team/{team_id}, and
\* its JSON body (POST) or its query parameters (GET)
NoRequest == [method |-> "none", path |-> None, payload |-> EmptyDict]

NoLocals == [from_user |-> None, mention_pattern |-> None, timeout |-> 0,
             body |-> None, request |-> NoRequest]
NoFrame == Frame("none", None, None, None)
NoResponse == [status |-> "none", user |-> None, message |-> None,
               channel |-> None, detail |-> None]

\* A Python exception: its class, its message, and the tool name it is
\* tagged with (None: it carries none).
NoError == [type |-> "none", tool |-> None, msg |-> None]
PyException(type, msg) == [type |-> type, tool |-> None, msg |-> msg]

\* hist: normalized - the strict filter ran; executed - tool.execute was
\* entered; connects - connection attempts; opened - connections opened;
\* sent - frames transmitted; requests - HTTP requests; expired - a
\* receive attempt timed out; failed - the kind of exception the
\* transport raised ("none" if none) and errtext - its text; accepted -
\* frames read that passed the filter; reads - frames read; thrown - the
\* exception tool.execute raised; error - the exception that left
\* execute_tool
NoHist == [normalized |-> FALSE, executed |-> FALSE, connects |-> 0,
           opened |-> 0, sent |-> 0, requests |-> 0, expired |-> FALSE,
           failed |-> "none", errtext |-> None, accepted |-> 0,
           reads |-> 0, thrown |-> NoError, error |-> NoError]

Envs == [host : BOOLEAN, team : BOOLEAN, user : {None, bob}]

ErrTexts == {<<"connection refused">>, <<"connection closed">>}

\* ToolResponse.from_model(WaitForMessageOutput(status="success", ...))
SuccessResponse(f) ==
    [status |-> "success", user |-> f.user, message |-> f.message,
     channel |-> f.channel, detail |-> None]

\* A faulty timeout result: reported with status="error".
TimeoutAsError ==
    [status |-> "error", user |-> None, message |-> None,
     channel |-> None, detail |-> <<"No matching message received in time.">>]

\* WaitForMessageOutput(status="timeout", detail=...)
TimeoutResponse ==
    [status |-> "timeout", user |-> None, message |-> None,
     channel |-> None, detail |-> <<"No matching message received in time.">>]

\* Output(status="error", detail=str(e))
ErrorResponse(text) ==
    [status |-> "error", user |-> None, message |-> None, channel |-> None,
     detail |-> text]

\* SendMessageOutput(status="success")
SentResponse ==
    [status |-> "success", user |-> None, message |-> None,
     channel |-> None, detail |-> None]

\* the error text of an exception raised while a frame is processed
FrameErrText == <<"frame error">>

\* A faulty release: the connection is closed on the success path only.
CloseOnSuccessOnly(c, path) ==
    IF c = "open" /\ path = "success" THEN "closed" ELSE c

\* Leaving the `async with websockets.connect(...)` block on any path:
\* __aexit__ closes the connection.
AsyncWithExit(c, path) == IF c = "open" THEN "closed" ELSE c

(***************************************************************************)
(* The synchronous head of tool.execute, up to its first await.            *)
(***************************************************************************)
null == <<"n", "u", "l", "l">>

\* A faulty injection: the mention is looked for as it is spelled.
SendBodyCaseSensitive(message, reply_to_user) ==
    LET r == IF reply_to_user = None \/ reply_to_user = null
             THEN <<>> ELSE reply_to_user
        mention == <<"@">> \o r
    IN  IF r /= <<>> /\ ~Contains(message, mention)
        THEN mention \o <<" ">> \o message
        ELSE message

\* SendMessageTool.execute: the body transmitted for message and
\* reply_to_user (mention injection).
SendBody(message, reply_to_user) ==
    LET r == IF reply_to_user = None \/ reply_to_user = null
             THEN <<>> ELSE reply_to_user
        mention == <<"@">> \o r
    IN  IF r /= <<>> /\ ~Contains(LowerText(message), LowerText(mention))
        THEN mention \o <<" ">> \o message
        ELSE message

OptS(v) == IF v.t = "str" THEN v.s ELSE None

MessagesPath == <<"/messages">>
QueryPath == <<"/messages/query">>

\* coerce_int, coerce_bool of GetUnreadMessagesTool
coerce_int(v) == IF v.t \in {"int", "bool"} THEN v ELSE VNone
coerce_bool(v) == IF v.t = "bool" THEN v.b ELSE FALSE

\* str(b).lower()
BoolText(b) == IF b THEN VStr(<<"t", "r", "u", "e">>)
               ELSE VStr(<<"f", "a", "l", "s", "e">>)

\* the query parameters of the GET of GetUnreadMessages: the configured
\* user, and the top-level fields of the typed input that are set
UnreadParams(inp, e) ==
    LET keys == (IF Truthy(e.user) THEN {"user"} ELSE {})
                \cup {k \in {"since_message_id", "limit", "mention_only",
                              "dm_only"} : inp[k] /= VNone}
                \cup (IF TruthyVal(inp["content_regex"])
                      THEN {"content_regex"} ELSE {})
    IN  [k \in keys |->
            CASE k = "user" -> VStr(e.user)
              [] k \in {"since_message_id", "limit"} -> coerce_int(inp[k])
              [] k \in {"mention_only", "dm_only"} ->
                    BoolText(coerce_bool(inp[k]))
              [] OTHER -> inp[k]]

\* the body of the POST: filters_obj.model_dump(), its user taken from
\* the configuration when the filter sets none
QueryBody(filter, e) ==
    IF TruthyVal(filter["user"]) THEN filter
    ELSE [filter EXCEPT !["user"] = VStr(e.user)]

\* A faulty choice: the parameterized GET whatever the input holds.
UnreadRequestAlwaysGet(inp, e) ==
    [method |-> "GET", path |-> MessagesPath,
     payload |-> UnreadParams(inp, e)]

\* GetUnreadMessagesTool.execute: `if input_data.filters:` chooses the
\* POST of the filter to /messages/query, else the GET with parameters.
UnreadRequest(inp, e) ==
    IF TruthyVal(inp["filters"])
    THEN [method |-> "POST", path |-> QueryPath,
          payload |-> QueryBody(inp["filters"].d, e)]
    ELSE [method |-> "GET", path |-> MessagesPath,
          payload |-> UnreadParams(inp, e)]

\* GetRecentMessagesTool.execute: GET with params = {"limit": limit or 20}
RecentRequest(inp) ==
    [method |-> "GET", path |-> MessagesPath,
     payload |-> [limit |-> IF TruthyVal(inp["limit"]) THEN inp["limit"]
                            ELSE VInt(DefaultLimit)]]

\* The head of execute for tool object obj with typed input inp under
\* environment e: the locals it computes and where it stands afterwards:
\* "connecting" (awaiting websockets.connect), "requesting" (awaiting the
\* HTTP response), "done" (returned) or "raised" (KeyError of os.environ).
ExecuteHead(obj, inp, e) ==
    CASE obj = "PkgWait" ->
            IF ~e.host \/ ~e.team
            THEN [pc |-> "raised", loc |-> NoLocals]
            ELSE [pc |-> "connecting",
                  loc |-> [from_user |->
                               IF TruthyVal(inp["from_user"])
                               THEN inp["from_user"].s ELSE e.user,
                           mention_pattern |->
                               IF TruthyVal(inp["mention_only"])
                                  /\ Truthy(e.user)
                               THEN e.user ELSE None,
                           timeout |-> inp["timeout"].n,
                           body |-> None,
                           request |-> NoRequest]]
      [] obj = "OldWait" ->
            [pc |-> "connecting",
             loc |-> [NoLocals EXCEPT !.timeout = inp["timeout"].n]]
      [] obj = "PkgSend" ->
            IF ~e.host \/ ~e.team \/ e.user = None
            THEN [pc |-> "raised", loc |-> NoLocals]
            ELSE [pc |-> "connecting",
                  loc |-> [NoLocals EXCEPT
                             !.body = SendBody(inp["message"].s,
                                               OptS(inp["reply_to_user"]))]]
      [] obj = "OldSend" ->
            [pc |-> "connecting",
             loc |-> [NoLocals EXCEPT !.body = inp["message"].s]]
      [] obj = "PkgUnread" ->
            IF ~e.host \/ ~e.team \/ e.user = None
            THEN [pc |-> "raised", loc |-> NoLocals]
            ELSE [pc |-> "requesting",
                  loc |-> [NoLocals EXCEPT !.request = UnreadRequest(inp, e)]]
      [] obj = "PkgRecent" ->
            [pc |-> "requesting",
             loc |-> [NoLocals EXCEPT !.request = RecentRequest(inp)]]
      [] OTHER -> [pc |-> "done", loc |-> NoLocals]

\* os.environ[...] of the head of execute: the first variable read that is
\* not set is the message of the KeyError.
MissingKey(obj, e) ==
    CASE ~e.host -> <<"BACKEND_HOST">>
      [] e.host /\ obj = "PkgSend" /\ e.user = None ->
            <<"INTERNAL_CHAT_USER">>
      [] e.host /\ ~(obj = "PkgSend" /\ e.user = None) /\ ~e.team ->
            <<"INTERNAL_CHAT_TEAM_ID">>
      [] OTHER -> <<"INTERNAL_CHAT_USER">>

\* Faulty handlers: a single try block, so that a TimeoutError of the
\* opening handshake is reported as a timeout too.
CatchOneTry(kind, where, text) ==
    IF kind = "TimeoutError"
    THEN TimeoutResponse
    ELSE ErrorResponse(text)

\* The handlers of WaitForMessageTool.execute.  An exception of the given
\* kind raised at `where` ("connect": entering the async with; "loop":
\* inside the inner try) is caught by `except asyncio.TimeoutError` only
\* inside the loop, and by the outer `except Exception` otherwise.
Catch(kind, where, text) ==
    IF kind = "TimeoutError" /\ where = "loop"
    THEN TimeoutResponse
    ELSE ErrorResponse(text)

\* A faulty loop body: the `continue` of a failed filter is missing, so
\* the first frame that is read is returned whatever the filters say.
WaitStepNoContinue(obj, inp, lc, f) ==
    LET r == FrameResult(obj, inp, lc, f)
    IN  IF r \in {"skip", "accept"}
        THEN [next |-> "return", response |-> SuccessResponse(f)]
        ELSE [next |-> "return",
              response |-> ErrorResponse(FrameErrText)]

\* One pass of the body of `while True` on a received frame: continue, or
\* return the response.
WaitStep(obj, inp, lc, f) ==
    LET r == FrameResult(obj, inp, lc, f)
    IN  CASE r = "skip" -> [next |-> "continue", response |-> NoResponse]
          [] r = "accept" ->
                [next |-> "return", response |-> SuccessResponse(f)]
          [] OTHER ->
                [next |-> "return",
                 response |-> Catch("Exception", "loop", FrameErrText)]

\* The tail of execute_tool: a WaitForMessage response with
\* status="success" and a non-empty message is held back by time.sleep(1.5)
\* before it is returned.
AfterExecute(name, resp) ==
    IF name = "WaitForMessage" /\ resp.status = "success"
       /\ IsStr(resp.message) /\ resp.message /= <<>>
    THEN "delaying" ELSE "done"

(***************************************************************************)
(* The calls of the model: tool names and argument maps.                   *)
(***************************************************************************)
team == <<"t24">>
\* a text with a double quote and a backslash in it
quoted == <<"a", "\"", "\\", "b">>

WaitArgs ==
    {ArgMap(r) : r \in
        [from_user : {Absent, VNone, VStr(alice), VStr(bob)},
         mention_only : {Absent, VBool(TRUE), VBool(FALSE)},
         timeout : {Absent} \cup {VInt(n) : n \in 1..MaxTimeout}]}
    \cup {ArgMap(r) : r \in
        [team_id : {VStr(team)},
         sender : {Absent, VStr(alice)},
         mention_only : {Absent, VBool(TRUE)},
         content_regex : {Absent, VStr(hi), VStr(BadRegex)},
         timeout : {VInt(1)}]}

SendArgs ==
    {ArgMap(r) : r \in
        [message : {Absent, VStr(hi), VStr(hiAtBOB), VStr(atBobbyHi),
                    VDict([text |-> VStr(hi)]),
                    VDict([user |-> VBool(TRUE), limit |-> VInt(10),
                           text |-> VStr(quoted)])},
         reply_to_user : {Absent, VNone, VStr(<<>>), VStr(null),
                          VStr(alice), VStr(bob)},
         team_id : {Absent, VStr(team)},
         user : {Absent, VStr(bob)}]}

UnreadArgs ==
    {ArgMap(r) : r \in
        [filters : {Absent, VNone, VDict(EmptyDict),
                    VDict([user |-> VStr(bob)]),
                    VDict([limit |-> VInt(10)])},
         from_user : {Absent, VStr(alice), VInt(5)},
         limit : {Absent, VInt(10)},
         mention_only : {Absent, VBool(TRUE)},
         content_regex : {Absent, VStr(hi)},
         junk : {Absent, VInt(1)}]}

RecentArgs ==
    {ArgMap(r) : r \in
        [team_id : {Absent, VStr(team), VDict([text |-> VStr(hi)])},
         limit : {Absent, VInt(10)}]}

OtherArgs ==
    {ArgMap(r) : r \in [junk : {Absent, VInt(1)}, message : {Absent, VStr(hi)}]}

ToolNames == {"SendMessage", "GetUnreadMessages", "WaitForMessage",
              "GetRecentMessages", "GetVersion", "HelloWorld"}

ArgMapsFor(name) ==
    CASE name = "WaitForMessage" -> WaitArgs
      [] name = "SendMessage" -> SendArgs
      [] name = "GetUnreadMessages" -> UnreadArgs
      [] name = "GetRecentMessages" -> RecentArgs
      [] OTHER -> OtherArgs

(***************************************************************************)
(* Construction and registration.                                          *)
(***************************************************************************)
\* no call was made yet
NoCall ==
    /\ pc = "startup"
    /\ tool_name = "none"
    /\ input_data = EmptyDict
    /\ tool = "none"
    /\ filtered_input = EmptyDict
    /\ input_model = EmptyDict
    /\ loc = NoLocals
    /\ conn = "none"
    /\ idle = 0
    /\ elapsed = 0
    /\ skipped = 0
    /\ last = NoFrame
    /\ response = NoResponse
    /\ exc = "none"
    /\ hist = NoHist
    /\ caller_args = EmptyDict
    /\ tasks = NoTasks
    /\ thread = 0

Init ==
    /\ tools = NoTools
    /\ env \in Envs
    /\ NoCall
    /\ regLog = <<>>
    /\ content = <<>>
    /\ wire = NoWire

\* A faulty registration: a name that is taken keeps its tool.
register_tool_keep_first(reg, obj) ==
    [n \in DOMAIN reg \cup {ToolName(obj)} |->
        IF n \in DOMAIN reg THEN reg[n] ELSE obj]

\* self._tools[tool.name] = tool
register_tool(reg, obj) ==
    [n \in DOMAIN reg \cup {ToolName(obj)} |->
        IF n = ToolName(obj) THEN obj ELSE reg[n]]

\* register_tools: register_tool for each tool of the list, in order
RECURSIVE RegisterAll(_, _, _)
RegisterAll(reg, ts, i) ==
    IF i > Len(ts) THEN reg
    ELSE RegisterAll(register_tool(reg, ts[i]), ts, i + 1)

\* main(): tool_service.register_tools(get_available_tools()); the
\* stand-alone tools, where installed, are registered after them.
RegisterTools(ts) ==
    /\ pc = "startup"
    /\ tools' = RegisterAll(tools, ts, 1)
    /\ regLog' = regLog \o ts
    /\ pc' = "idle"
    /\ UNCHANGED <<content, wire, env, tool_name, input_data, caller_args,
                   tool, filtered_input, input_model, loc, conn, idle,
                   elapsed, skipped, last, response, exc, hist, tasks,
                   thread>>

(***************************************************************************)
(* ToolService.execute_tool, from its entry to the first await.            *)
(***************************************************************************)
NotFound == "ValueError: Tool not found"

\* A faulty lookup: an unknown name falls back to a registered tool.
get_tool_fallback(reg, name) ==
    IF name \notin DOMAIN reg THEN "PkgVersion" ELSE reg[name]

\* get_tool: the registered tool object, or the ValueError
get_tool(reg, name) == IF name \notin DOMAIN reg THEN NotFound ELSE reg[name]

\* `response = await tool.execute(input_model)` stands in no try block:
\* an exception e of the executor of tool name leaves execute_tool as it
\* was raised.
Propagate(e, name) == e

\* the messages of the dispatcher's own errors
NotFoundText(name) == <<"Tool not found: ", name>>
ValidationText == <<"validation error">>

VersionResponse ==
    [status |-> "version", user |-> None, message |-> None,
     channel |-> None, detail |-> None]

execute_tool(name, args) ==
    LET found == get_tool(tools, name)
        f == Normalize(name, found, args)
        c == Construct(found, f)
        head == ExecuteHead(found, c.model, env)
        raised == PyException("KeyError", MissingKey(found, env))
    IN  /\ pc = "idle"
        /\ tool_name' = name
        /\ input_data' = args
        /\ caller_args' = IF found = NotFound THEN args
                          ELSE RelocateInPlace(name, args)
        /\ IF found = NotFound
           THEN /\ pc' = "raised"
                /\ exc' = "ValueError"
                /\ hist' = [hist EXCEPT !.error =
                              PyException("ValueError", NotFoundText(name))]
                /\ UNCHANGED <<tool, filtered_input, input_model, loc,
                               response>>
           ELSE IF ~c.ok
           THEN /\ pc' = "raised"
                /\ exc' = "ValidationError"
                /\ tool' = found
                /\ filtered_input' = f
                /\ hist' = [hist EXCEPT
                              !.normalized = TRUE,
                              !.error = PyException("ValidationError",
                                                    ValidationText)]
                /\ UNCHANGED <<input_model, loc, response>>
           ELSE /\ tool' = found
                /\ filtered_input' = f
                /\ input_model' = c.model
                /\ loc' = head.loc
                /\ pc' = head.pc
                /\ exc' = IF head.pc = "raised" THEN "KeyError" ELSE "none"
                /\ response' = IF head.pc = "done" THEN VersionResponse
                               ELSE response
                /\ hist' = [hist EXCEPT
                              !.normalized = TRUE,
                              !.executed = TRUE,
                              !.connects = IF head.pc = "connecting"
                                           THEN 1 ELSE 0,
                              !.requests = IF head.pc = "requesting"
                                           THEN 1 ELSE 0,
                              !.thrown = IF head.pc = "raised"
                                         THEN raised ELSE NoError,
                              !.error = IF head.pc = "raised"
                                        THEN Propagate(raised, name)
                                        ELSE NoError]
        /\ UNCHANGED <<fixed, conn, idle, elapsed, skipped, last>>

IsWait == tool \in {"PkgWait", "OldWait"}

\* tool.execute returns resp: the tail of execute_tool follows
Return(resp) ==
    /\ response' = resp
    /\ pc' = AfterExecute(tool_name, resp)

(***************************************************************************)
(* websockets.connect                                                      *)
(***************************************************************************)
ConnectOk ==
    /\ pc = "connecting"
    /\ conn' = "open"
    /\ pc' = IF IsWait THEN "listening" ELSE "sending"
    /\ hist' = [hist EXCEPT !.opened = @ + 1]
    /\ UNCHANGED <<fixed, tool_name, input_data, caller_args, tool,
                   filtered_input, input_model, loc, idle, elapsed, skipped,
                   last, response, exc>>

\* A faulty failure path: connecting is tried again.
ConnectFailRetry(kind, text) ==
    /\ pc = "connecting"
    /\ hist.connects <= 2
    /\ hist' = [hist EXCEPT !.connects = @ + 1, !.failed = kind,
                            !.errtext = text]
    /\ UNCHANGED <<fixed, pc, tool_name, input_data, caller_args, tool,
                   filtered_input, input_model, loc, conn, idle, elapsed,
                   skipped, last, response, exc>>

\* the connection cannot be opened: connect raises an OSError, or the
\* TimeoutError of its opening handshake; SendMessage has the one handler
\* `except Exception`
ConnectFail(kind, text) ==
    /\ pc = "connecting"
    /\ Return(IF IsWait THEN Catch(kind, "connect", text)
              ELSE ErrorResponse(text))
    /\ hist' = [hist EXCEPT !.failed = kind, !.errtext = text]
    /\ UNCHANGED <<fixed, tool_name, input_data, caller_args, tool,
                   filtered_input, input_model, loc, conn, idle, elapsed,
                   skipped, last, exc>>

(***************************************************************************)
(* The wait loop: asyncio.wait_for(websocket.recv(), timeout=timeout)      *)
(***************************************************************************)
\* time passes while the receive attempt waits
Tick ==
    /\ pc = "listening"
    /\ idle < loc.timeout
    /\ elapsed < MaxElapsed
    /\ idle' = idle + 1
    /\ elapsed' = elapsed + 1
    /\ UNCHANGED <<fixed, pc, tool_name, input_data, caller_args, tool,
                   filtered_input, input_model, loc, conn, skipped, last,
                   response, exc, hist>>

\* a frame arrives before the attempt expires
RecvFrame(f) ==
    LET step == WaitStep(tool, input_model, loc, f)
        passes == FrameResult(tool, input_model, loc, f) = "accept"
    IN  /\ pc = "listening"
        /\ idle < loc.timeout
        /\ last' = f
        /\ hist' = [hist EXCEPT !.reads = @ + 1,
                                !.accepted = IF passes THEN @ + 1 ELSE @]
        /\ IF step.next = "continue"
           THEN /\ skipped < MaxSkipped
                /\ skipped' = skipped + 1
                /\ idle' = 0
                /\ UNCHANGED <<pc, conn, response>>
           ELSE /\ Return(step.response)
                /\ conn' = AsyncWithExit(conn, step.response.status)
                /\ UNCHANGED <<skipped, idle>>
        /\ UNCHANGED <<fixed, tool_name, input_data, caller_args, tool,
                       filtered_input, input_model, loc, elapsed, exc>>

\* A faulty expiry: a cumulative deadline, the attempt is given up once
\* the whole call has listened for the timeout.
RecvTimeoutCumulative ==
    /\ pc = "listening"
    /\ elapsed >= loc.timeout
    /\ Return(TimeoutResponse)
    /\ conn' = "closed"
    /\ hist' = [hist EXCEPT !.expired = TRUE]
    /\ UNCHANGED <<fixed, tool_name, input_data, caller_args, tool,
                   filtered_input, input_model, loc, idle, elapsed, skipped,
                   last, exc>>

\* the attempt expires: asyncio.TimeoutError
RecvTimeout ==
    /\ pc = "listening"
    /\ idle = loc.timeout
    /\ Return(Catch("TimeoutError", "loop", <<"">>))
    /\ conn' = AsyncWithExit(conn, "timeout")
    /\ hist' = [hist EXCEPT !.expired = TRUE]
    /\ UNCHANGED <<fixed, tool_name, input_data, caller_args, tool,
                   filtered_input, input_model, loc, idle, elapsed, skipped,
                   last, exc>>

\* recv raises (the connection dropped)
RecvError(text) ==
    /\ pc = "listening"
    /\ Return(Catch("Exception", "loop", text))
    /\ conn' = AsyncWithExit(conn, "error")
    /\ hist' = [hist EXCEPT !.failed = "Exception", !.errtext = text]
    /\ UNCHANGED <<fixed, tool_name, input_data, caller_args, tool,
                   filtered_input, input_model, loc, idle, elapsed, skipped,
                   last, exc>>

(***************************************************************************)
(* SendMessage: one frame on the open connection.                          *)
(***************************************************************************)
SendOk ==
    /\ pc = "sending"
    /\ Return(SentResponse)
    /\ conn' = AsyncWithExit(conn, "success")
    /\ hist' = [hist EXCEPT !.sent = @ + 1]
    /\ UNCHANGED <<fixed, tool_name, input_data, caller_args, tool,
                   filtered_input, input_model, loc, idle, elapsed, skipped,
                   last, exc>>

SendError(text) ==
    /\ pc = "sending"
    /\ Return(ErrorResponse(text))
    /\ conn' = AsyncWithExit(conn, "error")
    /\ hist' = [hist EXCEPT !.failed = "Exception", !.errtext = text]
    /\ UNCHANGED <<fixed, tool_name, input_data, caller_args, tool,
                   filtered_input, input_model, loc, idle, elapsed, skipped,
                   last, exc>>

(***************************************************************************)
(* The fetch tools: one HTTP request.                                      *)
(***************************************************************************)
MessagesResponse ==
    [status |-> "messages", user |-> None, message |-> None,
     channel |-> None, detail |-> None]

HttpOk ==
    /\ pc = "requesting"
    /\ Return(MessagesResponse)
    /\ UNCHANGED <<fixed, tool_name, input_data, caller_args, tool,
                   filtered_input, input_model, loc, conn, idle, elapsed,
                   skipped, last, exc, hist>>

\* the message of an httpx exception
HttpErrorText(kind) ==
    IF kind = "ConnectError" THEN <<"All connection attempts failed">>
    ELSE <<"Server error '500 Internal Server Error'">>

\* the request cannot be made (httpx.ConnectError) or raise_for_status
\* raises for a non-success status (httpx.HTTPStatusError): nothing in
\* execute or in execute_tool catches it
HttpError(kind) ==
    LET raised == PyException(kind, HttpErrorText(kind))
    IN  /\ pc = "requesting"
        /\ pc' = "raised"
        /\ exc' = kind
        /\ hist' = [hist EXCEPT !.failed = kind,
                                !.errtext = HttpErrorText(kind),
                                !.thrown = raised,
                                !.error = Propagate(raised, tool_name)]
        /\ UNCHANGED <<fixed, tool_name, input_data, caller_args, tool,
                       filtered_input, input_model, loc, conn, idle, elapsed,
                       skipped, last, response>>

(***************************************************************************)
(* Cancellation of the task at an await, and the delayed return.           *)
(***************************************************************************)
\* CancelledError is not an Exception: it passes both handlers, and the
\* async with block closes the connection on the way out.
Cancel ==
    /\ pc \in {"connecting", "listening", "sending", "requesting"}
    /\ pc' = "cancelled"
    /\ exc' = "CancelledError"
    /\ conn' = AsyncWithExit(conn, "cancel")
    /\ UNCHANGED <<fixed, tool_name, input_data, caller_args, tool,
                   filtered_input, input_model, loc, idle, elapsed, skipped,
                   last, response, hist>>

\* time.sleep(1.5) is over: execute_tool returns the response
Deliver ==
    /\ pc = "delaying"
    /\ pc' = "done"
    /\ UNCHANGED <<fixed, tool_name, input_data, caller_args, tool,
                   filtered_input, input_model, loc, conn, idle, elapsed,
                   skipped, last, response, exc, hist>>

Next ==
    \/ \E ts \in {PkgTools, PkgTools \o OldTools} : RegisterTools(ts)
    \/ \E name \in ToolNames : \E args \in ArgMapsFor(name) :
            execute_tool(name, args)
    \/ ConnectOk
    \/ \E kind \in {"OSError", "TimeoutError"} : \E text \in ErrTexts :
            ConnectFail(kind, text)
    \/ Tick
    \/ \E f \in Frames : RecvFrame(f)
    \/ RecvTimeout
    \/ \E text \in ErrTexts : RecvError(text)
    \/ SendOk
    \/ \E text \in ErrTexts : SendError(text)
    \/ HttpOk
    \/ \E kind \in {"ConnectError", "HTTPStatusError"} : HttpError(kind)
    \/ Cancel
    \/ Deliver

Spec == Init /\ [][Next]_vars

TypeOK ==
    /\ pc \in {"startup", "idle", "connecting", "listening", "sending",
               "requesting", "delaying", "done", "raised", "cancelled"}
    /\ conn \in {"none", "open", "closed"}
    /\ idle \in 0..(DefaultTimeout + 1)
    /\ elapsed \in 0..(MaxElapsed + 1)
    /\ skipped \in 0..(MaxSkipped + 1)

(***************************************************************************)
(* Properties of the wait loop.                                            *)
(***************************************************************************)
Returned == pc \in {"delaying", "done"}

\* C1: WaitForMessage returns the first matching message in stream order:
\* while it listens every frame read so far failed the filter and was
\* skipped; the first frame that passes ends the wait with
\* status="success" and that frame's user, message and channel, after
\* exactly the skipped frames and itself were read; success is never
\* reported without such a frame.
C1_FirstMatch ==
    IsWait =>
        /\ hist.accepted <= 1
        /\ pc = "listening" => hist.accepted = 0 /\ hist.reads = skipped
        /\ hist.accepted = 1 =>
              /\ Returned
              /\ response = SuccessResponse(last)
              /\ hist.reads = skipped + 1
        /\ response.status = "success" => hist.accepted = 1

\* three frames were skipped and the fourth was returned
C1_Witness ==
    /\ IsWait
    /\ response.status = "success"
    /\ skipped = 3
    /\ hist.reads = 4

\* C2: once a receive attempt of WaitForMessage expired, the call has
\* returned status="timeout", which is neither "success" nor "error" and
\* carries no user, message or channel; a call that returned without
\* having read a frame and without a transport failure returned
\* status="timeout".
C2_TimeoutResult ==
    IsWait =>
        /\ hist.expired =>
              /\ pc = "done"
              /\ response.status = "timeout"
              /\ response.user = None
              /\ response.message = None
              /\ response.channel = None
        /\ (Returned /\ hist.reads = 0 /\ hist.failed = "none") =>
              response.status = "timeout"

\* a stream that yielded no frame until the attempt expired
C2_Witness ==
    /\ IsWait
    /\ pc = "done"
    /\ hist.expired
    /\ hist.reads = 0
    /\ idle = loc.timeout

(***************************************************************************)
(* Properties of the message predicate.                                    *)
(***************************************************************************)
\* "@u" stands at position i of t as a whole token: compared
\* case-insensitively, preceded by the start of t or a non-word character
\* and followed by a non-word character or the end of t.
WholeTokenAt(t, u, i) ==
    /\ LiteralAt(t, i, <<"@">> \o u)
    /\ i = 1 \/ (i > 1 /\ ~IsWord(t[i - 1]))
    /\ LET n == i + Len(u) + 1
       IN  n = Len(t) + 1 \/ (n <= Len(t) /\ ~IsWord(t[n]))

WholeTokenMention(t, u) == \E i \in 1..Len(t) : WholeTokenAt(t, u, i)

\* C3: with mention_only set and resolved identity u, WaitForMessage
\* accepts a message only if its text contains "@u" as a whole token.
C3_WholeTokenOnly ==
    (/\ tool = "PkgWait"
     /\ loc.mention_pattern /= None
     /\ response.status = "success")
        => WholeTokenMention(MessageText(last), loc.mention_pattern)

\* Was filter field k supplied by the caller with a value that asks for
\* filtering (a declared field, not null, not false)?
CallerSet(k) == k \in DOMAIN filtered_input /\ TruthyVal(input_data[k])

SenderKey == IF tool = "PkgWait" THEN "from_user" ELSE "sender"

\* the sub-predicate of mention_only as each tool documents it
MentionSub(f) ==
    IF tool = "PkgWait"
    THEN env.user = None \/ WholeTokenMention(MessageText(f), env.user)
    ELSE Contains(MessageText(f), <<"@">>)

\* the conjunction of the sub-predicates of the fields the caller set
ConjunctionOfSet(f) ==
    /\ CallerSet(SenderKey) => f.user = input_data[SenderKey].s
    /\ CallerSet("mention_only") => MentionSub(f)
    /\ CallerSet("content_regex") =>
          Contains(MessageText(f), input_data["content_regex"].s)

\* C4: a well-formed message read by WaitForMessage is returned exactly if
\* it satisfies the conjunction of the sub-predicates of the filter fields
\* the caller set; with no filter field set every message is returned.
C4_ConjunctionOfSetFields ==
    (/\ IsWait
     /\ hist.reads > 0
     /\ last.kind = "msg"
     /\ IsStr(last.user)
     /\ IsStr(last.message)
     /\ ~(CallerSet("content_regex")
          /\ input_data["content_regex"].s = BadRegex))
        => (response.status = "success" <=> ConjunctionOfSet(last))

(***************************************************************************)
(* Properties of the outcomes of the wait loop.                            *)
(***************************************************************************)
\* C5: once WaitForMessage's execute was entered with a validated input,
\* no exception leaves it, whatever the environment and the backend do: it
\* returns status "success", "timeout" or "error", with a detail on error.
C5_NeverRaises ==
    (IsWait /\ hist.executed) =>
        /\ pc /= "raised"
        /\ Returned =>
              /\ response.status \in {"success", "timeout", "error"}
              /\ response.status = "error" => response.detail /= None

\* C6 as stated: the call does not listen beyond the caller's timeout
\* budget; when the budget is used up without a match it has returned.
C6_WithinBudget == (IsWait /\ pc = "listening") => elapsed <= loc.timeout

Matched == response.status = "success" /\ hist.accepted = 1
TimedOut == response.status = "timeout" /\ hist.expired
ConnectionFailed == response.status = "error"

\* C6, amended: the timeout bounds each receive attempt, not the call.
\* While listening no attempt has waited longer than the timeout and
\* nothing was returned; the call times out exactly when one attempt has
\* waited the full timeout; and a call that has returned is in exactly one
\* of Matched, TimedOut and ConnectionFailed.
C6_PerAttemptTimeout ==
    IsWait =>
        /\ pc = "listening" =>
              /\ idle <= loc.timeout
              /\ response = NoResponse
              /\ ~hist.expired
        /\ hist.expired => idle = loc.timeout /\ Returned
        /\ Returned =>
              Cardinality({o \in {"Matched", "TimedOut", "Failed"} :
                  \/ o = "Matched" /\ Matched
                  \/ o = "TimedOut" /\ TimedOut
                  \/ o = "Failed" /\ ConnectionFailed}) = 1

\* a non-matching frame arrived before each attempt expired, and the call
\* still listens after more than its timeout
C6_Witness ==
    /\ IsWait
    /\ pc = "listening"
    /\ skipped > 0
    /\ elapsed > loc.timeout

\* C7: after a WaitForMessage or SendMessage call has returned, raised or
\* been cancelled, the connection it opened is not open.
C7_SocketClosed ==
    pc \in {"delaying", "done", "raised", "cancelled"} => conn /= "open"

\* the call was cancelled while it was connected
C7_Witness == pc = "cancelled" /\ conn = "closed" /\ hist.opened = 1

\* C8: a transport failure of WaitForMessage (the stream cannot be opened,
\* or recv raises) is reported as status="error" with the error's text as
\* detail, never as a timeout; status="timeout" is returned only after a
\* receive attempt expired, and an expiry is never reported as an error.
C8_ErrorIsNotTimeout ==
    (IsWait /\ Returned) =>
        /\ hist.failed /= "none" =>
              response.status = "error" /\ response.detail = hist.errtext
        /\ response.status = "timeout" =>
              hist.expired /\ hist.failed = "none"
        /\ hist.expired => response.status /= "error"

\* opening the stream timed out, and the call reported an error
C8_Witness ==
    /\ IsWait
    /\ Returned
    /\ hist.failed = "TimeoutError"
    /\ conn = "none"

(***************************************************************************)
(* Properties of the dispatcher.                                           *)
(***************************************************************************)
Called == pc \notin {"startup", "idle"}

\* C9: execute_tool with a name that is not registered fails with the
\* not-found ValueError, before any normalization, executor invocation,
\* connection or request.
C9_NotFoundFirst ==
    (Called /\ tool_name \notin DOMAIN tools) =>
        /\ pc = "raised"
        /\ exc = "ValueError"
        /\ tool = "none"
        /\ ~hist.normalized
        /\ ~hist.executed
        /\ filtered_input = EmptyDict
        /\ hist.connects = 0
        /\ hist.requests = 0
        /\ conn = "none"

\* an unregistered name was called
C9_Witness == Called /\ tool_name = "HelloWorld" /\ exc = "ValueError"

\* the argument map restricted to the keys of K
Restrict(args, K) == [k \in DOMAIN args \cap K |-> args[k]]

\* Does the call fail validation when only the keys of K are supplied?
FailsWith(K) ==
    ~Construct(tool, Normalize(tool_name, tool, Restrict(input_data, K))).ok

\* C10 as stated: the keys handed to the input model are declared ones,
\* every declared key supplied is kept, and no undeclared key causes an
\* error: a call that fails validation fails without them too.
C10_UndeclaredNeverErrors ==
    hist.normalized =>
        /\ DOMAIN filtered_input \subseteq AllowedFields(tool)
        /\ DOMAIN input_data \cap AllowedFields(tool)
              \subseteq DOMAIN filtered_input
        /\ exc = "ValidationError" => FailsWith(AllowedFields(tool))

\* the undeclared key whose value is relocated, not dropped
RelocatedKeys == IF tool_name = "GetUnreadMessages" THEN {"from_user"} ELSE {}

\* C10, amended: the keys handed to the input model are declared ones,
\* every declared key supplied is kept, and an undeclared key is dropped
\* and causes no error by itself, except the top-level from_user of a
\* GetUnreadMessages call, whose value is written into filters.user and
\* validated there.
C10_AllowList ==
    hist.normalized =>
        /\ DOMAIN filtered_input \subseteq AllowedFields(tool)
        /\ DOMAIN input_data \cap AllowedFields(tool)
              \subseteq DOMAIN filtered_input
        /\ exc = "ValidationError" =>
              FailsWith(AllowedFields(tool) \cup RelocatedKeys)

\* a call with an undeclared key was validated and executed
C10_Witness ==
    /\ hist.executed
    /\ exc = "none"
    /\ DOMAIN input_data \ (AllowedFields(tool) \cup RelocatedKeys) /= {}

(***************************************************************************)
(* Validation and the order of execute_tool's steps.                       *)
(***************************************************************************)
\* The normalized input does not build a typed input: a required field is
\* missing or a supplied value does not validate as its field's type.
Invalid(obj, f) ==
    \/ \E k \in DOMAIN FieldDefaults(obj) :
            FieldDefaults(obj)[k] = Absent /\ k \notin DOMAIN f
    \/ \E k \in DOMAIN f \cap DOMAIN FieldKinds(obj) :
            ~FieldOk(FieldKinds(obj)[k], f[k])

\* C11: whenever the normalized input of a call does not build the typed
\* input, execute_tool has raised the validation error, the executor was
\* never entered, and no connection was attempted or opened, no frame
\* sent and no HTTP request issued; and a validation error is raised in
\* no other case.
C11_ValidationFirst ==
    /\ (hist.normalized /\ Invalid(tool, filtered_input)) =>
            /\ pc = "raised"
            /\ exc = "ValidationError"
            /\ ~hist.executed
            /\ hist.connects = 0 /\ hist.opened = 0 /\ hist.sent = 0
            /\ hist.requests = 0
            /\ conn = "none"
            /\ response = NoResponse
    /\ exc = "ValidationError" =>
            hist.normalized /\ Invalid(tool, filtered_input)

\* a SendMessage call without its required message, and a
\* GetUnreadMessages call with an ill-typed filter, were rejected
C11_Witness ==
    /\ exc = "ValidationError"
    /\ tool \in {"PkgSend", "PkgUnread"}
    /\ Invalid(tool, filtered_input)
    /\ env.host /\ env.team /\ env.user /= None

(***************************************************************************)
(* The relocation of from_user.                                            *)
(***************************************************************************)
\* the nested filters object of the caller's argument map sets user
NestedUserSet(args) ==
    /\ "filters" \in DOMAIN args
    /\ args["filters"].t = "dict"
    /\ "user" \in DOMAIN args["filters"].d

\* C12: a top-level from_user of a GetUnreadMessages call is moved into
\* filters.user only if the nested filters object does not already set
\* user: with both supplied filters.user keeps the caller's nested value,
\* with only from_user supplied filters.user takes it; from_user is never
\* a key of the normalized input; and for every other tool the
\* normalized input is the filtered and serialized one, nothing relocated.
C12_RelocationKeepsNested ==
    hist.normalized =>
        IF tool_name = "GetUnreadMessages"
        THEN /\ "from_user" \notin DOMAIN filtered_input
             /\ "from_user" \in DOMAIN input_data =>
                    /\ "filters" \in DOMAIN filtered_input
                    /\ filtered_input["filters"].d["user"] =
                           IF NestedUserSet(input_data)
                           THEN input_data["filters"].d["user"]
                           ELSE input_data["from_user"]
        ELSE filtered_input =
                AutoSerialize(StrictFilter(input_data, AllowedFields(tool)),
                              tool)

(***************************************************************************)
(* Structured values for string fields.                                    *)
(***************************************************************************)
\* the filters argument of a call whose top-level from_user is written
\* into it (the relocation, C12)
RelocationTarget(k) ==
    /\ k = "filters"
    /\ tool_name = "GetUnreadMessages"
    /\ "from_user" \in DOMAIN input_data

ExecutorRaised == hist.thrown /= NoError

\* C14: an exception raised by a tool's executor reaches the caller of
\* execute_tool as an execution error that carries the name of the tool
\* and the original message; it is not swallowed and no normal response
\* takes its place.
C14_ExecutionErrorTagged ==
    ExecutorRaised =>
        /\ pc = "raised"
        /\ response = NoResponse
        /\ hist.error.type = "ExecutionError"
        /\ hist.error.tool = tool_name
        /\ hist.error.msg = hist.thrown.msg

(***************************************************************************)
(* Failures of the backend under the fetch tools.                          *)
(***************************************************************************)
IsFetch == tool \in {"PkgUnread", "PkgRecent"}

\* C15: a failure of the backend or of the transport under
\* GetUnreadMessages or GetRecentMessages (the connection fails, the
\* status is not a success) is caught inside the tool and returned as a
\* structured error: the call returns a response that reports the error
\* and no exception leaves execute_tool.
C15_FetchErrorStructured ==
    (IsFetch /\ hist.failed /= "none") =>
        /\ pc /= "raised"
        /\ exc = "none"
        /\ response.status = "error"
        /\ response.detail /= None

(***************************************************************************)
(* The request of GetUnreadMessages.                                       *)
(***************************************************************************)
\* the call issued its one request
Requested == tool = "PkgUnread" /\ hist.requests = 1

\* a field that filters is set in the typed input: a filters object, or
\* one of the top-level mention_only, dm_only, content_regex
AnyFilterFieldSet ==
    \/ input_model["filters"] /= VNone
    \/ input_model["mention_only"] = VBool(TRUE)
    \/ input_model["dm_only"] = VBool(TRUE)
    \/ TruthyVal(input_model["content_regex"])

\* C16 as stated: the request of a GetUnreadMessages call is the POST to
\* /messages/query whenever any filter field is set, and the
\* parameterized GET when none is.
C16_PostWhenAnyFilterSet ==
    Requested =>
        IF AnyFilterFieldSet
        THEN loc.request.method = "POST" /\ loc.request.path = QueryPath
        ELSE loc.request.method = "GET" /\ loc.request.path = MessagesPath

\* the value the caller's argument map gives filter field k, as the typed
\* filter holds it; the field's default when the caller gives none
CallerFilterValue(k) ==
    LET d == IF "filters" \in DOMAIN filtered_input
                /\ filtered_input["filters"].t = "dict"
             THEN filtered_input["filters"].d ELSE EmptyDict
    IN  IF k \in DOMAIN d THEN ScalarVal(FilterKinds[k], d[k])
        ELSE FilterDefaults[k]

\* C16, amended: a GetUnreadMessages call issues at most one request,
\* and exactly one once its executor is past the configuration lookups.
\* It is the POST to /messages/query exactly when the typed input has a
\* filters object (even one with no field set); its body is the full
\* filter, every field with the value handed to validation or its
\* default, user excepted when the filter sets none. Otherwise it is the
\* GET of /messages, whose parameters carry the top-level fields that
\* are set, mention_only and content_regex among them.
C16_PostExactlyWithFilters ==
    (tool = "PkgUnread" /\ hist.executed) =>
        /\ hist.requests <= 1
        /\ hist.requests = 1 <=> hist.thrown.type /= "KeyError"
        /\ hist.requests = 0 => loc.request = NoRequest
        /\ hist.requests = 1 =>
              IF input_model["filters"] /= VNone
              THEN /\ loc.request.method = "POST"
                   /\ loc.request.path = QueryPath
                   /\ DOMAIN loc.request.payload = DOMAIN FilterKinds
                   /\ \A k \in DOMAIN FilterKinds :
                         \/ loc.request.payload[k] = CallerFilterValue(k)
                         \/ k = "user" /\ ~TruthyVal(CallerFilterValue(k))
              ELSE /\ loc.request.method = "GET"
                   /\ loc.request.path = MessagesPath
                   /\ \A k \in {"limit", "mention_only", "content_regex"} :
                         k \in DOMAIN input_data =>
                            k \in DOMAIN loc.request.payload
                   /\ "mention_only" \in DOMAIN input_data =>
                         loc.request.payload["mention_only"]
                            = BoolText(input_data["mention_only"].b)
                   /\ "content_regex" \in DOMAIN input_data =>
                         loc.request.payload["content_regex"]
                            = input_data["content_regex"]
                   /\ "limit" \in DOMAIN input_data =>
                         loc.request.payload["limit"] = input_data["limit"]

\* a call with only the top-level mention_only set went out as a GET
\* whose parameters carry it, and the request was answered
C16_Witness ==
    /\ tool = "PkgUnread"
    /\ pc = "done"
    /\ hist.requests = 1
    /\ DOMAIN input_data = {"mention_only"}
    /\ loc.request.method = "GET"
    /\ loc.request.payload["mention_only"] = BoolText(TRUE)

(***************************************************************************)
(* One attempt per call.                                                   *)
(***************************************************************************)
IsSend == tool \in {"PkgSend", "OldSend"}

MaxContent == 3

\* ToolContent: a text item and a json item
TextItem(s) == [type |-> "text", text |-> VStr(s), json_data |-> VNone]
JsonItem(d) == [type |-> "json", text |-> VNone, json_data |-> VDict(d)]

ContentItems ==
    {TextItem(<<>>), TextItem(hi), JsonItem(EmptyDict),
     JsonItem([status |-> VStr(<<"success">>)])}

\* ToolResponse.content: the sequences of up to MaxContent items
Contents ==
    UNION {[1..n -> ContentItems] : n \in 0..MaxContent}

\* a Python list
VList(items) == [t |-> "list", items |-> items]

\* A faulty processing: every item goes by the default branch.
process_tool_content_default(c) ==
    IF TruthyVal(c.text) THEN c.text
    ELSE IF TruthyVal(c.json_data) THEN c.json_data
    ELSE VDict(EmptyDict)

\* _process_tool_content
process_tool_content(c) ==
    IF c.type = "text" THEN c.text
    ELSE IF c.type = "json" /\ c.json_data /= VNone THEN c.json_data
    ELSE IF TruthyVal(c.text) THEN c.text
    ELSE IF TruthyVal(c.json_data) THEN c.json_data
    ELSE VDict(EmptyDict)

\* _serialize_response
serialize_response(items) ==
    IF items = <<>> THEN VDict(EmptyDict)
    ELSE IF Len(items) = 1 THEN process_tool_content(items[1])
    ELSE VList([i \in 1..Len(items) |-> process_tool_content(items[i])])

\* a response with some content is about to be serialized
InitSerialize ==
    /\ tools = NoTools
    /\ env = [host |-> TRUE, team |-> TRUE, user |-> bob]
    /\ NoCall
    /\ regLog = <<>>
    /\ content \in Contents
    /\ wire = NoWire

\* the generated handler: return self._serialize_response(result)
Serialize ==
    /\ wire = NoWire
    /\ wire' = serialize_response(content)
    /\ UNCHANGED <<tools, env, pc, tool_name, input_data, caller_args, tool,
                   filtered_input, input_model, loc, conn, idle, elapsed,
                   skipped, last, response, exc, hist, regLog, content,
                   tasks, thread>>

NextSerialize == Serialize

SpecSerialize == InitSerialize /\ [][NextSerialize]_vars

\* the value of a content item: the text of a text item, the payload of a
\* json item
OwnValue(c) == IF c.type = "text" THEN c.text ELSE c.json_data

\* C18: the serialized value of a response is the empty object when the
\* content is empty, the one item's own value, unwrapped, when there is
\* exactly one item, and for n >= 2 items the list of the n values in
\* the order of the content.
C18_Serialization ==
    wire /= NoWire =>
        /\ Len(content) = 0 => wire = VDict(EmptyDict)
        /\ Len(content) = 1 => wire = OwnValue(content[1])
        /\ Len(content) >= 2 =>
              /\ wire.t = "list"
              /\ Len(wire.items) = Len(content)
              /\ \A i \in 1..Len(content) :
                    wire.items[i] = OwnValue(content[i])

\* a response of a text item followed by a json item was serialized to
\* the list of the text and the payload
C18_Witness ==
    /\ wire /= NoWire
    /\ Len(content) = 2
    /\ content[1] = TextItem(hi)
    /\ content[2].type = "json"
    /\ wire = VList(<<VStr(hi), content[2].json_data>>)

(***************************************************************************)
(* The mention injection of SendMessage.                                   *)
(***************************************************************************)
\* the reply_to_user hint of the typed input: the user name, or <<>> when
\* the hint is omitted, null (also spelled "null") or empty
Hint ==
    LET r == input_model["reply_to_user"]
    IN  IF r.t = "str" /\ r.s /= null THEN r.s ELSE <<>>

\* text t holds "@u" somewhere, letter case disregarded
HoldsMention(t, u) ==
    \E i \in 1..Len(t) : LiteralAt(t, i, <<"@">> \o u)

\* the packaged SendMessage built the body of its frame
BodyBuilt == tool = "PkgSend" /\ hist.executed /\ exc /= "KeyError"

\* C19: with reply_to_user hint u set, the body SendMessage transmits is
\* "@u " followed by the message when the message does not hold "@u",
\* compared case-insensitively, and the message unchanged when it does;
\* with the hint omitted, null or empty it is the message unchanged; and
\* the injection applied to its own output changes nothing.
C19_MentionInjection ==
    BodyBuilt =>
        LET m == input_model["message"].s
        IN  /\ loc.body =
                  IF Hint /= <<>> /\ ~HoldsMention(m, Hint)
                  THEN <<"@">> \o Hint \o <<" ">> \o m
                  ELSE m
            /\ SendBody(loc.body, OptS(input_model["reply_to_user"]))
                  = loc.body

\* a message that holds the mention in other letter case was transmitted
\* as it was
C19_Witness ==
    /\ BodyBuilt
    /\ pc = "done"
    /\ response.status = "success"
    /\ Hint = bob
    /\ input_model["message"].s = hiAtBOB
    /\ loc.body = hiAtBOB

(***************************************************************************)
(* The registry under any sequence of register_tool calls.                 *)
(***************************************************************************)
MaxRegs == 3

\* the tool objects there are to register
ToolObjects == {PkgTools[i] : i \in 1..Len(PkgTools)}
               \cup {OldTools[i] : i \in 1..Len(OldTools)}

\* a fresh ToolService: self._tools = {}
InitRegistry ==
    /\ tools = NoTools
    /\ env = [host |-> TRUE, team |-> TRUE, user |-> bob]
    /\ NoCall
    /\ regLog = <<>>
    /\ content = <<>>
    /\ wire = NoWire

\* tool_service.register_tool(obj)
Register(obj) ==
    /\ pc = "startup"
    /\ Len(regLog) < MaxRegs
    /\ tools' = register_tool(tools, obj)
    /\ regLog' = Append(regLog, obj)
    /\ UNCHANGED <<env, pc, tool_name, input_data, caller_args, tool,
                   filtered_input, input_model, loc, conn, idle, elapsed,
                   skipped, last, response, exc, hist, content, wire,
                   tasks, thread>>

NextRegistry == \E obj \in ToolObjects : Register(obj)

SpecRegistry == InitRegistry /\ [][NextRegistry]_vars

\* the registrations under name n, by their place in the log
RegisteredAt(n) == {i \in 1..Len(regLog) : ToolName(regLog[i]) = n}

\* the tool object registered last under name n
LastRegistered(n) ==
    regLog[CHOOSE i \in RegisteredAt(n) : \A j \in RegisteredAt(n) : j <= i]

\* C20: registration is keyed by name and the last write wins. The
\* registry binds exactly the names that were registered, one tool each;
\* get_tool of a registered name is the tool registered last under it,
\* whatever was registered under the name before; a name once
\* registered stays bound; a name never registered is not found.
C20_LastWriteWins ==
    /\ DOMAIN tools = {ToolName(regLog[i]) : i \in 1..Len(regLog)}
    /\ \A n \in ToolNames :
            get_tool(tools, n) =
                IF RegisteredAt(n) /= {} THEN LastRegistered(n)
                ELSE NotFound

\* SendMessage was registered three times, by two different tools, and
\* is bound to the last of them
C20_Witness ==
    /\ regLog = <<"PkgSend", "OldSend", "PkgSend">>
    /\ DOMAIN tools = {"SendMessage"}
    /\ get_tool(tools, "SendMessage") = "PkgSend"

(***************************************************************************)
(* The sender constraint of the request of GetUnreadMessages.              *)
(***************************************************************************)
\* the user of the request: the user of the POST body or the user
\* parameter of the GET, VNone when the request carries none
RequestUser ==
    IF "user" \in DOMAIN loc.request.payload
    THEN loc.request.payload["user"] ELSE VNone

\* the user the caller gave: filters.user of the normalized input (also
\* one taken over from a top-level from_user), VNone when there is none
CallerUser == CallerFilterValue("user")

\* C21: the request GetUnreadMessages sends constrains the sender only
\* when the caller supplied a user: it carries the caller's user when one
\* was given and no user value otherwise.
C21_NoUserUnlessGiven ==
    Requested =>
        IF TruthyVal(CallerUser) THEN RequestUser = CallerUser
        ELSE RequestUser = VNone

(***************************************************************************)
(* The frame of execute_tool: the caller's argument map and the registry.  *)
(***************************************************************************)
\* a call leaves the registry as it found it
C23_RegistryUnchanged == [][pc /= "startup" => tools' = tools]_vars

\* C23: after any call of execute_tool, successful or failing, the
\* argument map the caller passed in, with every nested object reachable
\* from it, has the keys and values it had before the call.
C23_ArgumentsUnchanged == Called => caller_args = input_data

(***************************************************************************)
(* Concurrent invocations.  uvicorn.run drives one asyncio event loop on   *)
(* one thread; each tool call is a task of that loop.  A task gives the    *)
(* thread up at an await (connect, send, receive, the HTTP request) and    *)
(* nowhere else, so a step of a task needs the thread to be free.          *)
(* time.sleep(1.5) is no await: the task sleeps holding the thread.        *)
(***************************************************************************)
MaxTasks == 2

\* the variables of the single call, which concurrent tasks leave alone
oneCall == <<tools, env, regLog, content, wire, pc, tool_name, input_data,
             caller_args, tool, filtered_input, input_model, loc, conn,
             idle, elapsed, skipped, last, response, exc, hist>>

\* the tools a concurrent task runs, and the await each one starts at
TaskTools == {"WaitForMessage", "SendMessage", "GetRecentMessages"}
FirstAwait(name) ==
    IF name = "GetRecentMessages" THEN "requesting" ELSE "connecting"

\* the frames a listening task may read
TaskFrames ==
    {Frame("msg", alice, hi, None), Frame("msg", alice, <<>>, None),
     Frame("notjson", None, None, None)}

InitConcurrent ==
    /\ Init
    /\ env = [host |-> TRUE, team |-> TRUE, user |-> None]

\* the tasks at an await, waiting for the loop to resume them
Suspended == {"connecting", "listening", "sending", "requesting"}

\* task i leaves tool.execute with resp: the tail of execute_tool runs
\* in the same step of the loop, and enters time.sleep if it applies
Finish(i, resp) ==
    LET after == AfterExecute(tasks[i].name, resp)
    IN  /\ tasks' = [tasks EXCEPT ![i] = [@ EXCEPT !.pc = after,
                                                   !.response = resp]]
        /\ thread' = IF after = "delaying" THEN i ELSE 0

\* a request arrives: the loop starts a task that runs execute_tool up to
\* its first await
Invoke(name) ==
    /\ pc = "idle"
    /\ name \in DOMAIN tools
    /\ thread = 0
    /\ Len(tasks) < MaxTasks
    /\ tasks' = Append(tasks, [name |-> name, pc |-> FirstAwait(name),
                               response |-> NoResponse])
    /\ UNCHANGED <<oneCall, thread>>

\* websockets.connect returns to task i
TaskConnect(i) ==
    /\ thread = 0
    /\ tasks[i].pc = "connecting"
    /\ tasks' = [tasks EXCEPT ![i].pc =
                    IF tasks[i].name = "SendMessage" THEN "sending"
                    ELSE "listening"]
    /\ UNCHANGED <<oneCall, thread>>

\* websockets.connect raises in task i
TaskConnectFail(i, text) ==
    /\ thread = 0
    /\ tasks[i].pc = "connecting"
    /\ Finish(i, ErrorResponse(text))
    /\ UNCHANGED oneCall

\* ws.recv returns frame f to task i
TaskRecv(i, f) ==
    /\ thread = 0
    /\ tasks[i].pc = "listening"
    /\ CASE FrameResultPkg(NoLocals, f) = "accept" ->
                Finish(i, SuccessResponse(f))
          [] FrameResultPkg(NoLocals, f) = "error" ->
                Finish(i, ErrorResponse(FrameErrText))
          [] OTHER -> UNCHANGED <<tasks, thread>>
    /\ UNCHANGED oneCall

\* the wait of task i runs out
TaskTimeout(i) ==
    /\ thread = 0
    /\ tasks[i].pc = "listening"
    /\ Finish(i, TimeoutResponse)
    /\ UNCHANGED oneCall

\* ws.send returns to task i
TaskSend(i) ==
    /\ thread = 0
    /\ tasks[i].pc = "sending"
    /\ Finish(i, SentResponse)
    /\ UNCHANGED oneCall

\* the HTTP response arrives for task i
TaskHttp(i) ==
    /\ thread = 0
    /\ tasks[i].pc = "requesting"
    /\ Finish(i, MessagesResponse)
    /\ UNCHANGED oneCall

\* time.sleep(1.5) of task i is over: execute_tool returns the response
\* and the thread goes back to the loop
TaskDeliver(i) ==
    /\ thread = i
    /\ tasks[i].pc = "delaying"
    /\ tasks' = [tasks EXCEPT ![i].pc = "done"]
    /\ thread' = 0
    /\ UNCHANGED oneCall

\* the next step of task i at its await
TaskStep(i) ==
    \/ TaskConnect(i)
    \/ \E text \in ErrTexts : TaskConnectFail(i, text)
    \/ \E f \in TaskFrames : TaskRecv(i, f)
    \/ TaskTimeout(i)
    \/ TaskSend(i)
    \/ TaskHttp(i)

NextConcurrent ==
    \/ RegisterTools(PkgTools)
    \/ \E name \in TaskTools : Invoke(name)
    \/ \E i \in 1..MaxTasks : i <= Len(tasks) /\ TaskStep(i)
    \/ \E i \in 1..MaxTasks : i <= Len(tasks) /\ TaskDeliver(i)

SpecConcurrent == InitConcurrent /\ [][NextConcurrent]_vars

\* C22: while one WaitForMessage invocation has matched a message and has
\* not yet returned its response, every other invocation in flight can
\* take its next step.
C22_OthersCanStep ==
    \A i, j \in 1..Len(tasks) :
        (/\ i /= j
         /\ tasks[i].name = "WaitForMessage"
         /\ tasks[i].pc = "delaying"
         /\ tasks[j].pc \in Suspended) => ENABLED TaskStep(j)

====
